---- MODULE Spec2Model ----
(***************************************************************************)
(* The WebSocket connection registry of the emotion-detection service      *)
(* (websocket_main.py): the ConnectionManager, the streaming endpoint      *)
(* that registers one client per connection, and the message handler that  *)
(* answers a client and fans results out to the user's other clients.      *)
(*                                                                         *)
(* The service runs on one asyncio event loop.  A step of the model is the *)
(* code one coroutine runs between two suspension points: the handshake    *)
(* (websocket.accept), a channel write (websocket.send_text), the wait for *)
(* the gathered send tasks (asyncio.gather) and the wait for the next      *)
(* inbound message (websocket.receive_text).                               *)
(*                                                                         *)
(* A client id is the uuid4 string the endpoint draws; the model numbers   *)
(* the clients 1..MaxClients in the order the endpoint is entered, so an   *)
(* id is never used twice.  The handler of a connection and its client id  *)
(* are the same index.                                                     *)
(***************************************************************************)
EXTENDS Integers, Sequences, FiniteSets, TLC

\* Bounds of the model: the connections opened in a run, the
\* send_personal_message and broadcast_to_user calls issued in a run, and the
\* entries of an emotions mapping passed to predict_preferences, and the
\* chunks the text-generation stream yields to stream_recommendations, and
\* the database operations the database-backed service is asked for.
MaxClients == 2
MaxCalls == 5
MaxEmotions == 2
MaxChunks == 3
MaxDbCalls == 3

Clients == 1..MaxClients
Users == {"u1", "u2"}
NoUser == "none"

\* Inbound message kinds handle_websocket_message tells apart.  "no_image" is
\* a detect_emotion message without image_data; "other" is any other type.
Inbound == {"ping", "detect_emotion", "no_image", "get_emotion_history", "other"}

VARIABLES
    pc,                  \* per handler: idle, accept, send, gather, recv, done
    user,                \* per handler: the user_id of its path
    active_connections,  \* keys of ConnectionManager.active_connections
    user_sessions,       \* ConnectionManager.user_sessions: user_id -> set of client ids
    chanOk,              \* per client: no write to its websocket has failed and it is open
    writes,              \* per client: the send_text calls made on its websocket, in call order
    psend,               \* per handler: its send_personal_message call in flight, with the message type
    bcast,               \* per handler: its broadcast_to_user call in flight
    calls,               \* history, per handler: its send/broadcast calls in issue order; of a
                         \* broadcast: the session set (snap) and its registered part (live)
                         \* at the call, and the clients its send tasks were run for (sent)
    issued,              \* history, per client: the calls targeting it, in issue order
    ncalls,              \* number of calls issued so far
    raised,              \* history: calls that raised to their caller
    gone,                \* history: failed writes whose client was already removed
    node,                \* predict_preferences: idle, the graph node to run next, llm
                         \* (waiting for chain.ainvoke), END, returned, raised
    arg,                 \* predict_preferences: the user_id and emotions passed in
    state,               \* predict_preferences: the AgentState flowing through the graph
    result,              \* predict_preferences: the dictionary returned
    reply,               \* history: what the text-generation call came back with
    llmCalls,            \* history: number of chain.ainvoke calls of the invocation
    trace,               \* history: the graph nodes started and ended, in order
    snode,               \* stream_recommendations: idle, streaming, error (suspended at
                         \* the yield of the error message), done
    chunks,              \* history: the chunks chain.astream has yielded
    emitted,             \* history: what the consumer of the generator has received
    scalls,              \* history: number of chain.astream calls
    sfailed,             \* history: chain.astream has raised
    slots,               \* two predict_preferences invocations on one agent: the
                         \* AgentState objects on the heap
    inv,                 \* the two invocations: position, arguments, the reply of
                         \* the text-generation chain, returned dictionary
    booted,              \* database-backed service: the startup event has run
    pool,                \* db_manager.pool: 0 for None, else the id of a pool
    npools,              \* number of pools asyncpg.create_pool has handed out
    acq,                 \* history: per pool, connections acquired from it
    rel,                 \* history: per pool, connections released to it
    op,                  \* the operations in progress, one per request task
    dbcalls,             \* number of operations started
    nrows                \* rows inserted into emotion_detections

rvars == <<pc, user, active_connections, user_sessions, chanOk, writes, psend,
           bcast, calls, issued, ncalls, raised, gone>>

pvars == <<node, arg, state, result, reply, llmCalls, trace>>

svars == <<snode, chunks, emitted, scalls, sfailed>>

cvars == <<slots, inv>>

dvars == <<booted, pool, npools, acq, rel, op, dbcalls, nrows>>

vars == <<rvars, pvars, svars, cvars, dvars>>

\* What the steps of one component leave alone: the state of the others.
notRegistry == <<pvars, svars, cvars, dvars>>
notPipeline == <<rvars, svars, cvars, dvars>>
notStream == <<rvars, pvars, cvars, dvars>>
notPair == <<rvars, pvars, svars, dvars>>
notDb == <<rvars, pvars, svars, cvars>>

\* A message is named by the handler that issued the call and the position of
\* the call among that handler's calls.
NoSend == [k |-> 0, type |-> "none", then |-> "recv"]
NoBcast == [k |-> 0, type |-> "none", todo |-> {}, inflight |-> {}, noop |-> {}]

(***************************************************************************)
(* ConnectionManager                                                       *)
(***************************************************************************)

\* connect, after the handshake: lines 38-42.
ConnectInsertOverwrite(ac, us, c, u) ==
    [ac |-> ac \cup {c}, us |-> [v \in DOMAIN us \cup {u} |-> IF v = u THEN {c} ELSE us[v]]]

ConnectInsertConnectionOnly(ac, us, c, u) ==
    [ac |-> ac \cup {c}, us |-> us]

ConnectInsertSharedSet(ac, us, c, u) ==
    [ac |-> ac \cup {c},
     us |-> [v \in DOMAIN us \cup {u} |->
                (IF v \in DOMAIN us THEN us[v] ELSE {}) \cup {c}]]

ConnectInsert(ac, us, c, u) ==
    [ac |-> ac \cup {c},
     us |-> [v \in DOMAIN us \cup {u} |->
                IF v = u
                THEN (IF u \in DOMAIN us THEN us[u] ELSE {}) \cup {c}
                ELSE us[v]]]

\* connect, up to the await of the handshake in line 37: nothing has been
\* inserted yet.
BeforeHandshakeInserts(ac, us, c, u) == ConnectInsert(ac, us, c, u)

BeforeHandshake(ac, us, c, u) == [ac |-> ac, us |-> us]

\* disconnect: lines 46-53.  Both removals are guarded (the membership test
\* of line 47, discard in line 51), so raised is never set.
DisconnectSessionsOnly(ac, us, c, u) ==
    [ac |-> ac,
     us |-> IF u \in DOMAIN us
            THEN (IF us[u] \ {c} = {}
                  THEN [v \in DOMAIN us \ {u} |-> us[v]]
                  ELSE [us EXCEPT ![u] = @ \ {c}])
            ELSE us,
     raised |-> FALSE]

DisconnectDropsUser(ac, us, c, u) ==
    [ac |-> ac \ {c},
     us |-> [v \in DOMAIN us \ {u} |-> us[v]],
     raised |-> FALSE]

DisconnectKeepsEmptySet(ac, us, c, u) ==
    [ac |-> IF c \in ac THEN ac \ {c} ELSE ac,
     us |-> IF u \in DOMAIN us THEN [us EXCEPT ![u] = @ \ {c}] ELSE us,
     raised |-> FALSE]

DisconnectConnectionOnly(ac, us, c, u) ==
    [ac |-> IF c \in ac THEN ac \ {c} ELSE ac, us |-> us, raised |-> FALSE]

DisconnectMaps(ac, us, c, u) ==
    [ac |-> IF c \in ac THEN ac \ {c} ELSE ac,
     us |-> IF u \in DOMAIN us
            THEN (IF us[u] \ {c} = {}
                  THEN [v \in DOMAIN us \ {u} |-> us[v]]
                  ELSE [us EXCEPT ![u] = @ \ {c}])
            ELSE us,
     raised |-> FALSE]

\* send_personal_message, the membership test of line 58.
SendCheck(ac, c) == c \in ac

\* send_personal_message, the except branch of lines 61-65: the entry is
\* deleted only if it is still there; raised tells whether the branch raises.
RemoveBrokenUnguarded(ac, c) ==
    [ac |-> ac \ {c}, raised |-> c \notin ac]

RemoveBroken(ac, c) ==
    [ac |-> IF c \in ac THEN ac \ {c} ELSE ac, raised |-> FALSE]

\* active_connections after the write of lines 59-65 to client c has ended:
\* untouched when send_text returned, the except branch when it raised.
AfterWriteAlwaysRemoves(ac, c, ok) == ac \ {c}

AfterWrite(ac, c, ok) == IF ok THEN ac ELSE RemoveBroken(ac, c).ac

\* broadcast_to_user, lines 68-71: one send task per client of a copy of the
\* user's session set; no task for a user without sessions.
BroadcastTargetsEveryUser(us, u) ==
    UNION {us[v] : v \in DOMAIN us}

BroadcastTargetsFirstOnly(us, u) ==
    IF u \in DOMAIN us THEN {CHOOSE c \in us[u] : \A d \in us[u] : c <= d} ELSE {}

BroadcastTargets(us, u) ==
    IF u \in DOMAIN us THEN us[u] ELSE {}

\* The tasks asyncio.gather(..., return_exceptions=True) still waits for after
\* the task of client c has ended (line 74): all the others, also when c's
\* write failed.
SiblingsDroppedOnFailure(inflight, c, ok) ==
    IF ok THEN inflight \ {c} ELSE {}

SiblingsAfter(inflight, c, ok) == inflight \ {c}

\* gather is called with return_exceptions=True (line 74): an exception of a
\* send task is handed back as a value and broadcast_to_user does not raise.
GatherRaises(taskRaised) == FALSE

\* broadcast_to_user returns when every gathered task has ended (line 74).
GatherNotAwaited(b) == TRUE

GatherReady(b) == b.todo = {} /\ b.inflight = {}

\* get_stats: lines 76-81.
get_stats ==
    [total_connections |-> Cardinality(active_connections),
     total_users |-> Cardinality(DOMAIN user_sessions),
     connections_per_user |->
        [u \in DOMAIN user_sessions |-> Cardinality(user_sessions[u])]]


(***************************************************************************)
(* Helpers over the histories                                              *)
(***************************************************************************)

SetStatus(w, by, k, st) ==
    [i \in DOMAIN w |->
        IF w[i].by = by /\ w[i].k = k THEN [w[i] EXCEPT !.st = st] ELSE w[i]]

IsOk(r) == r.st = "ok"

\* The messages client c has received: the writes that succeeded, in the
\* order send_text was called on its websocket.
Received(c) ==
    LET s == SelectSeq(writes[c], IsOk) IN [i \in DOMAIN s |-> <<s[i].by, s[i].k>>]

Attempts(c, by, k) ==
    Cardinality({i \in DOMAIN writes[c] : writes[c][i].by = by /\ writes[c][i].k = k})

Failed(c, by, k) ==
    \E i \in DOMAIN writes[c] :
        writes[c][i].by = by /\ writes[c][i].k = k /\ writes[c][i].st = "fail"

Got(c, by, k) ==
    \E i \in DOMAIN writes[c] :
        writes[c][i].by = by /\ writes[c][i].k = k /\ writes[c][i].st = "ok"

SessionClients == UNION {user_sessions[u] : u \in DOMAIN user_sessions}

\* The broadcast_to_user calls issued so far, as <<handler, position>>.
Broadcasts ==
    UNION {{<<h, k>> : k \in {j \in DOMAIN calls[h] : calls[h][j].kind = "broadcast"}} :
              h \in Clients}

(***************************************************************************)
(* The handler's code between suspension points                            *)
(***************************************************************************)

\* broadcast_to_user as called by handler h (lines 67-74, up to the await of
\* gather), with cs and iss the histories, ac and us the maps at the call.
BroadcastCall(h, cs, iss, ac, us) ==
    LET k == Len(cs[h]) + 1
        targets == BroadcastTargets(us, user[h])
        snap == IF user[h] \in DOMAIN us THEN us[user[h]] ELSE {}
        rec == [kind |-> "broadcast", snap |-> snap, live |-> snap \cap ac,
                sent |-> {}, done |-> targets = {}]
    IN  /\ calls' = [cs EXCEPT ![h] = Append(@, rec)]
        /\ issued' = [c \in Clients |->
                        IF c \in snap THEN Append(iss[c], <<h, k>>) ELSE iss[c]]
        /\ IF targets # {}
           THEN /\ pc' = [pc EXCEPT ![h] = "gather"]
                /\ bcast' = [bcast EXCEPT ![h] =
                                [k |-> k, type |-> "emotion_update", todo |-> targets,
                                 inflight |-> {}, noop |-> {}]]
           ELSE /\ pc' = [pc EXCEPT ![h] = "recv"]
                /\ bcast' = bcast

\* What handler h runs after a send_personal_message call has returned: the
\* broadcast of lines 182-190 after the emotion_detected reply, otherwise the
\* next receive_text of line 143.
Continue(h, then, cs, iss, ac, us) ==
    IF then = "bcast"
    THEN BroadcastCall(h, cs, iss, ac, us)
    ELSE /\ calls' = cs
         /\ issued' = iss
         /\ pc' = [pc EXCEPT ![h] = "recv"]
         /\ bcast' = bcast

\* send_personal_message(message, client_id) called by handler h for its own
\* client (lines 57-60): a client that is not in active_connections is
\* skipped and the call returns at once; otherwise send_text is called on its
\* websocket and the handler waits for the write.
PersonalSend(h, type, then, ac, us) ==
    LET k == Len(calls[h]) + 1
        rec == [kind |-> "send", snap |-> {}, live |-> {}, sent |-> {}, done |-> FALSE]
        iss == [issued EXCEPT ![h] = Append(@, <<h, k>>)]
    IN  IF SendCheck(ac, h)
        THEN /\ calls' = [calls EXCEPT ![h] = Append(@, rec)]
             /\ issued' = iss
             /\ writes' = [writes EXCEPT ![h] =
                              Append(@, [by |-> h, k |-> k, st |-> "pending"])]
             /\ psend' = [psend EXCEPT ![h] = [k |-> k, type |-> type, then |-> then]]
             /\ pc' = [pc EXCEPT ![h] = "send"]
             /\ bcast' = bcast
        ELSE /\ writes' = writes
             /\ psend' = psend
             /\ Continue(h, then,
                         [calls EXCEPT ![h] = Append(@, [rec EXCEPT !.done = TRUE])],
                         iss, ac, us)

\* The reply handle_websocket_message sends for an inbound message: lines 162-206.
ReplyType(t) ==
    CASE t = "ping" -> "pong"
      [] t = "detect_emotion" -> "emotion_detected"
      [] t = "get_emotion_history" -> "emotion_history"
      [] OTHER -> "error"

\* The number of calls handle_websocket_message issues for an inbound message.
CallsFor(t) ==
    CASE t = "no_image" -> 0
      [] t = "detect_emotion" -> 2
      [] OTHER -> 1

\* The end of the write send_personal_message waits for, for the message
\* <<by, k>> on client c's websocket (lines 60-65): it went through, or it
\* raised and the except branch removes the entry.  task tells a send task
\* of a broadcast from a call of the handler itself.
WriteEnd(c, by, k, ok, task) ==
    LET rb == RemoveBroken(active_connections, c)
    IN  /\ writes' = [writes EXCEPT ![c] = SetStatus(@, by, k, IF ok THEN "ok" ELSE "fail")]
        /\ chanOk' = IF ok THEN chanOk ELSE [chanOk EXCEPT ![c] = FALSE]
        /\ active_connections' = AfterWrite(active_connections, c, ok)
        /\ raised' = IF ~ok /\ rb.raised
                     THEN raised
                          \cup {[op |-> "send", by |-> by, k |-> k, client |-> c]}
                          \cup (IF task /\ GatherRaises(TRUE)
                                THEN {[op |-> "broadcast", by |-> by, k |-> k, client |-> c]}
                                ELSE {})
                     ELSE raised
        /\ gone' = IF ~ok /\ c \notin active_connections
                   THEN gone \cup {<<by, k, c>>} ELSE gone

(***************************************************************************)
(* EmotionAgent (emotion_agent.py): predict_preferences and the graph of   *)
(* three nodes it runs.  The graph library is taken by the contract the    *)
(* code relies on: ainvoke runs the entry node, follows the edges until a  *)
(* node has none, lets a node's exception through, and hands back the      *)
(* final AgentState.                                                       *)
(*                                                                         *)
(* Weights are counted in tenths and confidence scores in hundredths, so   *)
(* 0.9 * 0.8 = 0.72 reads 9 * 8 = 72.  A mapping is a sequence of          *)
(* <<label, weight>> pairs with distinct labels, in the dictionary's       *)
(* iteration order.  An optional field is a record: none tells whether it  *)
(* is None, v is its value otherwise.                                      *)
(***************************************************************************)

Labels == {"neutral", "happy", "surprise", "sad"}
Weights == {0, 2, 8, 10}

EmotionMaps ==
    {m \in UNION {[1..n -> Labels \X Weights] : n \in 0..MaxEmotions} :
        \A i, j \in DOMAIN m : i # j => m[i][1] # m[j][1]}

\* The emotions argument: None, a mapping, or a value AgentState rejects.
EmotionArgs ==
    {[kind |-> "none", items |-> << >>], [kind |-> "invalid", items |-> << >>]}
        \cup {[kind |-> "map", items |-> m] : m \in EmotionMaps}

NoneMap == [none |-> TRUE, v |-> << >>]
NoneList == [none |-> TRUE, v |-> << >>]
NoneStr == [none |-> TRUE, v |-> ""]
NoneNum == [none |-> TRUE, v |-> 0]
Some(x) == [none |-> FALSE, v |-> x]

\* The contents chain.ainvoke can return: text that is not JSON, JSON that is
\* not an object, or an object in which each of the two keys is present or
\* not.
CategoryLists ==
    {<< >>, <<"Books">>, <<"Books", "Jewelry", "Handmade">>,
     <<"Electronics", "Clothing", "Books", "Jewelry", "Handmade", "Automotive">>}

Replies ==
    {[kind |-> k, cats |-> NoneList, reasoning |-> NoneStr] : k \in {"not_json", "not_object"}}
        \cup {[kind |-> "object", cats |-> c, reasoning |-> r] :
                c \in {NoneList} \cup {Some(l) : l \in CategoryLists},
                r \in {NoneStr, Some(""), Some("r")}}

NoReply == [kind |-> "none", cats |-> NoneList, reasoning |-> NoneStr]
Raised == [kind |-> "raise", cats |-> NoneList, reasoning |-> NoneStr]

\* AgentState as constructed in lines 182-187; the derived fields default to None.
InitialState(u, e) ==
    [user_id |-> u,
     emotions |-> IF e.kind = "map" THEN Some(e.items) ELSE NoneMap,
     recommended_categories |-> NoneList,
     reasoning |-> NoneStr,
     confidence_score |-> NoneNum]

\* Python's truth value of an Optional mapping or list: None and empty are false.
Truthy(o) == ~o.none /\ o.v # << >>

\* The graph of lines 79-88.
EntryPoint == "analyze_emotion"

NextNodeRetries(n) ==
    CASE n = "analyze_emotion" -> "generate_recommendations"
      [] n = "generate_recommendations" -> "calculate_confidence"
      [] OTHER -> "generate_recommendations"

NextNode(n) ==
    CASE n = "analyze_emotion" -> "generate_recommendations"
      [] n = "generate_recommendations" -> "calculate_confidence"
      [] OTHER -> "END"

\* _analyze_emotions, lines 97-102.
AnalyzeKeepsEmpty(st) == st

AnalyzeEmotions(st) ==
    IF ~Truthy(st.emotions)
    THEN [st EXCEPT !.emotions = Some(<<<<"neutral", 10>>>>)]
    ELSE st

\* _generate_recommendations, lines 137-146: the parse of the content.
FallbackCategories == <<"Electronics", "Clothing", "Home & Kitchen">>
ParseFallbackReasoning == "Default recommendations based on general popularity."

ParseResult(st, r) ==
    IF r.kind = "object"
    THEN [st EXCEPT !.recommended_categories = IF r.cats.none THEN Some(<< >>) ELSE r.cats,
                    !.reasoning = IF r.reasoning.none THEN Some("") ELSE r.reasoning]
    ELSE [st EXCEPT !.recommended_categories = Some(FallbackCategories),
                    !.reasoning = Some(ParseFallbackReasoning)]

\* _calculate_confidence, lines 155-168.  max(d, key=d.get) is the first key,
\* in iteration order, among those of greatest weight.
Dominant(m) ==
    CHOOSE i \in DOMAIN m :
        /\ \A j \in DOMAIN m : m[j][2] <= m[i][2]
        /\ \A j \in DOMAIN m : j < i => m[j][2] < m[i][2]

Factor(label) ==
    CASE label = "neutral" -> 7
      [] label \in {"happy", "surprise"} -> 9
      [] OTHER -> 8

DefaultConfidence == 50

CalculateConfidence(st) ==
    IF Truthy(st.emotions)
    THEN LET d == st.emotions.v[Dominant(st.emotions.v)]
         IN  [st EXCEPT !.confidence_score = Some(Factor(d[1]) * d[2])]
    ELSE [st EXCEPT !.confidence_score = Some(DefaultConfidence)]

\* predict_preferences, lines 193-198: x or default.
ReturnDefault == 50

OrNum(o, d) == IF o.none \/ o.v = 0 THEN d ELSE o.v
OrList(o) == IF o.none THEN << >> ELSE o.v
OrStr(o) == IF o.none THEN "" ELSE o.v

ReturnResult(u, st) ==
    [user_id |-> u,
     recommended_categories |-> OrList(st.recommended_categories),
     reasoning |-> OrStr(st.reasoning),
     confidence_score |-> OrNum(st.confidence_score, ReturnDefault)]

\* predict_preferences, lines 199-207: the except branch.
FallbackConfidence == 50

FallbackResult(u) ==
    [user_id |-> u,
     recommended_categories |-> FallbackCategories,
     reasoning |-> "Default recommendations due to processing error.",
     confidence_score |-> FallbackConfidence]

\* predict_preferences, line 199: except Exception catches what the
\* construction of AgentState ("validation") and the graph ("llm") raise.
ExceptCatchesValidationOnly(exc) == exc = "validation"

ExceptCatches(exc) == TRUE

NoResult ==
    [user_id |-> "", recommended_categories |-> << >>, reasoning |-> "",
     confidence_score |-> 0]

NoArg == [user_id |-> "", emotions |-> [kind |-> "none", items |-> << >>]]

PipeIdle ==
    /\ node = "idle"
    /\ arg = NoArg
    /\ state = InitialState("", NoArg.emotions)
    /\ result = NoResult
    /\ reply = NoReply
    /\ llmCalls = 0
    /\ trace = << >>

(***************************************************************************)
(* EmotionAgent.stream_recommendations (lines 209-266): an async generator *)
(* that hands on the chunks of chain.astream and, when the stream raises,  *)
(* one error message.  A step is what the generator runs between two       *)
(* suspension points: the wait for the next chunk and each yield.          *)
(***************************************************************************)

\* The chunks the stream can yield: message chunks with a content attribute,
\* and values without one, which are rendered by str().
ChunkValues ==
    {[hasContent |-> TRUE, content |-> "a", str |-> "chunk(a)"],
     [hasContent |-> TRUE, content |-> "b", str |-> "chunk(b)"],
     [hasContent |-> FALSE, content |-> "", str |-> "c"]}

\* Line 255.
Content(chunk) == IF chunk.hasContent THEN chunk.content ELSE chunk.str

ErrorFragment == [kind |-> "error", text |-> "Error generating streaming recommendations"]

\* Lines 260-266: what the consumer has received once the except branch has
\* yielded.
OnStreamErrorSilent(out) == out

OnStreamError(out) == Append(out, ErrorFragment)

StreamIdle ==
    /\ snode = "idle"
    /\ chunks = << >>
    /\ emitted = << >>
    /\ scalls = 0
    /\ sfailed = FALSE

(***************************************************************************)
(* Two invocations of predict_preferences on one EmotionAgent, interleaved *)
(* at their suspension points.  The agent's own fields (llm, memory,       *)
(* product_categories, graph; lines 44-69) are not assigned after          *)
(* construction; what an invocation works on is the AgentState it builds.  *)
(***************************************************************************)

Invocations == {1, 2}

\* The inputs and chain replies the two invocations draw from.
PairArgs ==
    {[kind |-> "none", items |-> << >>], [kind |-> "invalid", items |-> << >>],
     [kind |-> "map", items |-> <<<<"happy", 8>>>>],
     [kind |-> "map", items |-> <<<<"neutral", 0>>>>]}

PairReplies ==
    {[kind |-> "not_json", cats |-> NoneList, reasoning |-> NoneStr],
     [kind |-> "object", cats |-> NoneList, reasoning |-> NoneStr],
     [kind |-> "object", cats |-> Some(<<"Books">>), reasoning |-> Some("r")]}

\* Line 182: each invocation constructs an AgentState of its own; the graph
\* hands that object from node to node.
StateSlotShared(i) == 1

StateSlot(i) == i

PairIdle ==
    /\ slots = [k \in Invocations |-> InitialState("", NoArg.emotions)]
    /\ inv = [i \in Invocations |->
                [node |-> "idle", arg |-> NoArg, reply |-> NoReply, result |-> NoResult]]

(***************************************************************************)
(* The database-backed service: DatabaseManager (database.py) and          *)
(* EmotionDetectorService.detect_emotion (main_with_database.py).  Request *)
(* tasks run on one event loop; a step is what a task runs between two     *)
(* suspension points.  Pools are numbered in the order create_pool hands   *)
(* them out; a connection is known by the pool it was acquired from.       *)
(* Confidences are counted in hundredths.                                  *)
(***************************************************************************)

Tasks == {1, 2}
MaxPools == MaxDbCalls + 1
Pools == 1..MaxPools
NoPool == 0

\* The operations that log an exception and return a default (lines 125-290).
Swallowing == {"history", "analytics", "recommendations", "test"}

\* What _detect_with_fer or _generate_mock_emotion_data returns (lines 62-65).
Detections ==
    {[emotion |-> "happy", confidence |-> 90,
      allEmotions |-> <<<<"happy", 90>>, <<"sad", 10>>>>, source |-> "fer_model_real"],
     [emotion |-> "sad", confidence |-> 40,
      allEmotions |-> <<<<"happy", 30>>, <<"sad", 40>>, <<"neutral", 30>>>>,
      source |-> "mock_data_real_structure"]}

NoDetection == [emotion |-> "", confidence |-> 0, allEmotions |-> << >>, source |-> ""]

\* The dictionary detect_emotion works on: the detection, with the keys the
\* save adds absent.
Dict(d) ==
    [emotion |-> d.emotion, confidence |-> d.confidence, allEmotions |-> d.allEmotions,
     source |-> d.source, saved_to_database |-> "absent", detection_id |-> 0,
     database_error |-> FALSE, value |-> "result"]

\* Lines 95-97: the outer except returns mock data of reason error_fallback.
MockFallback ==
    Dict([emotion |-> "neutral", confidence |-> 30,
          allEmotions |-> <<<<"neutral", 30>>>>, source |-> "mock_data_error_fallback"])

\* What an operation other than the save returns: its rows, or its default.
Value(ok) == [Dict(NoDetection) EXCEPT !.value = IF ok THEN "rows" ELSE "default"]

\* Lines 82-91: the keys added after the save returned id, or raised.
AfterSaveFallsBack(res, ok, id) ==
    IF ok
    THEN [res EXCEPT !.detection_id = id, !.saved_to_database = "true"]
    ELSE MockFallback

AfterSave(res, ok, id) ==
    IF ok
    THEN [res EXCEPT !.detection_id = id, !.saved_to_database = "true"]
    ELSE [res EXCEPT !.saved_to_database = "false", !.database_error = TRUE]

\* Line 83, self.pool.release(conn): a pool takes back only a connection
\* acquired from it and raises for any other.
ReleaseAccepts(p, c) == p = c

NoOp ==
    [kind |-> "none", pc |-> "idle", target |-> NoPool, conn |-> NoPool,
     det |-> NoDetection, rowid |-> 0, bodyOk |-> FALSE, raised |-> FALSE,
     noPool |-> FALSE, ret |-> Value(FALSE)]

\* get_connection up to its first suspension (lines 75-79).
EnterPool(rec) ==
    IF pool = NoPool
    THEN [rec EXCEPT !.pc = "creating"]
    ELSE [rec EXCEPT !.pc = "acquiring", !.target = pool]

\* The operation ends: save_emotion_detection returns the id or re-raises
\* into detect_emotion (lines 119-123, 82-93); the others return their rows
\* or their default.
DbFinish(rec, ok) ==
    [rec EXCEPT !.pc = "done", !.raised = ~ok,
                !.ret = IF rec.kind = "detect"
                        THEN AfterSave(Dict(rec.det), ok, rec.rowid)
                        ELSE Value(ok)]

\* The finally of get_connection (lines 82-83), entered with the body's
\* outcome: self.pool is read again at this point.
Finally(rec, ok) ==
    IF ReleaseAccepts(pool, rec.conn)
    THEN [rec EXCEPT !.bodyOk = ok, !.pc = "releasing"]
    ELSE DbFinish([rec EXCEPT !.bodyOk = ok], FALSE)

DbIdle ==
    /\ booted = FALSE
    /\ pool = NoPool
    /\ npools = 0
    /\ acq = [p \in Pools |-> 0]
    /\ rel = [p \in Pools |-> 0]
    /\ op = [t \in Tasks |-> NoOp]
    /\ dbcalls = 0
    /\ nrows = 0

(***************************************************************************)
(* Actions                                                                 *)
(***************************************************************************)

Init ==
    /\ pc = [h \in Clients |-> "idle"]
    /\ user = [h \in Clients |-> NoUser]
    /\ active_connections = {}
    /\ user_sessions = << >>
    /\ chanOk = [c \in Clients |-> TRUE]
    /\ writes = [c \in Clients |-> << >>]
    /\ psend = [h \in Clients |-> NoSend]
    /\ bcast = [h \in Clients |-> NoBcast]
    /\ calls = [h \in Clients |-> << >>]
    /\ issued = [c \in Clients |-> << >>]
    /\ ncalls = 0
    /\ raised = {}
    /\ gone = {}
    /\ PipeIdle
    /\ StreamIdle
    /\ PairIdle
    /\ DbIdle

\* emotion_stream_endpoint is entered for user u: a fresh client id, then
\* manager.connect waits for the handshake (lines 125-128, 37).  The user ids
\* are opaque to the code, so the first connection is taken to be "u1"'s.
Start(h, u) ==
    /\ pc[h] = "idle"
    /\ \A g \in Clients : g < h => pc[g] # "idle"
    /\ u = "u1" \/ \E g \in Clients : user[g] = "u1"
    /\ pc' = [pc EXCEPT ![h] = "accept"]
    /\ user' = [user EXCEPT ![h] = u]
    /\ LET r == BeforeHandshake(active_connections, user_sessions, h, u)
       IN  /\ active_connections' = r.ac
           /\ user_sessions' = r.us
    /\ UNCHANGED <<chanOk, writes, psend, bcast, calls, issued, ncalls, raised, gone>>
    /\ UNCHANGED notRegistry

\* The handshake succeeds: connect registers the client and the endpoint
\* sends the connection_established message (lines 38-42, 131-139).
AcceptOk(h) ==
    /\ pc[h] = "accept"
    /\ ncalls < MaxCalls
    /\ ncalls' = ncalls + 1
    /\ LET r == ConnectInsert(active_connections, user_sessions, h, user[h])
       IN  /\ active_connections' = r.ac
           /\ user_sessions' = r.us
           /\ PersonalSend(h, "connection_established", "recv", r.ac, r.us)
    /\ UNCHANGED <<user, chanOk, raised, gone>>
    /\ UNCHANGED notRegistry

\* The handshake raises: the endpoint's except branch unregisters the client
\* that was never registered (lines 151-153).
AcceptFail(h) ==
    /\ pc[h] = "accept"
    /\ LET r == DisconnectMaps(active_connections, user_sessions, h, user[h])
       IN  /\ active_connections' = r.ac
           /\ user_sessions' = r.us
           /\ raised' = IF r.raised
                        THEN raised \cup {[op |-> "disconnect", by |-> h, k |-> 0, client |-> h]}
                        ELSE raised
    /\ pc' = [pc EXCEPT ![h] = "done"]
    /\ chanOk' = [chanOk EXCEPT ![h] = FALSE]
    /\ UNCHANGED <<user, writes, psend, bcast, calls, issued, ncalls, gone>>
    /\ UNCHANGED notRegistry

\* The write of handler h's send_personal_message call ends with outcome ok;
\* the call returns and the handler goes on (lines 60-65, then 143 or 182).
SendEnd(h, ok) ==
    /\ pc[h] = "send"
    /\ ok => chanOk[h]
    /\ WriteEnd(h, h, psend[h].k, ok, FALSE)
    /\ psend' = [psend EXCEPT ![h] = NoSend]
    /\ Continue(h, psend[h].then, [calls EXCEPT ![h][psend[h].k].done = TRUE], issued,
                AfterWrite(active_connections, h, ok),
                user_sessions)
    /\ UNCHANGED <<user, user_sessions, ncalls>>
    /\ UNCHANGED notRegistry

SendOk(h) == SendEnd(h, TRUE)

SendFail(h) == SendEnd(h, FALSE)

\* receive_text returns a message of kind t and handle_websocket_message
\* runs up to its first channel write (lines 143-146, 160-206).  The
\* detection of line 172 does no I/O and does not suspend.
RecvMsg(h, t) ==
    /\ pc[h] = "recv"
    /\ ncalls + CallsFor(t) <= MaxCalls
    /\ ncalls' = ncalls + CallsFor(t)
    /\ IF t = "no_image"
       THEN UNCHANGED <<pc, writes, psend, bcast, calls, issued>>
       ELSE PersonalSend(h, ReplyType(t),
                         IF t = "detect_emotion" THEN "bcast" ELSE "recv",
                         active_connections, user_sessions)
    /\ UNCHANGED <<user, active_connections, user_sessions, chanOk, raised, gone>>
    /\ UNCHANGED notRegistry

\* receive_text raises WebSocketDisconnect, or the message does not decode:
\* both except branches unregister the client and the endpoint ends, which
\* closes the websocket (lines 148-153).
RecvFail(h) ==
    /\ pc[h] = "recv"
    /\ LET r == DisconnectMaps(active_connections, user_sessions, h, user[h])
       IN  /\ active_connections' = r.ac
           /\ user_sessions' = r.us
           /\ raised' = IF r.raised
                        THEN raised \cup {[op |-> "disconnect", by |-> h, k |-> 0, client |-> h]}
                        ELSE raised
    /\ pc' = [pc EXCEPT ![h] = "done"]
    /\ chanOk' = [chanOk EXCEPT ![h] = FALSE]
    /\ UNCHANGED <<user, writes, psend, bcast, calls, issued, ncalls, gone>>
    /\ UNCHANGED notRegistry

\* The send tasks gather has scheduled for the broadcast of handler h run
\* their first step, one after the other (lines 57-60 for each client of the
\* snapshot): a client that is no longer in active_connections is skipped.
TasksStart(h) ==
    /\ bcast[h].todo # {}
    /\ LET b == bcast[h]
           go == {c \in b.todo : SendCheck(active_connections, c)}
       IN  /\ writes' = [c \in Clients |->
                            IF c \in go
                            THEN Append(writes[c], [by |-> h, k |-> b.k, st |-> "pending"])
                            ELSE writes[c]]
           /\ bcast' = [bcast EXCEPT ![h] =
                           [b EXCEPT !.todo = {}, !.inflight = go,
                                     !.noop = {c \in b.todo \ go : pc[c] = "done"}]]
           /\ calls' = [calls EXCEPT ![h][b.k].sent = b.todo]
    /\ UNCHANGED <<pc, user, active_connections, user_sessions, chanOk, psend,
                   issued, ncalls, raised, gone>>
    /\ UNCHANGED notRegistry

\* The write of the send task for client c of handler h's broadcast ends
\* with outcome ok (lines 60-65).
TaskEnd(h, c, ok) ==
    /\ c \in bcast[h].inflight
    /\ ok => chanOk[c]
    /\ WriteEnd(c, h, bcast[h].k, ok, TRUE)
    /\ bcast' = [bcast EXCEPT ![h].inflight = SiblingsAfter(@, c, ok)]
    /\ UNCHANGED <<pc, user, user_sessions, psend, calls, issued, ncalls>>
    /\ UNCHANGED notRegistry

TaskOk(h, c) == TaskEnd(h, c, TRUE)

TaskFail(h, c) == TaskEnd(h, c, FALSE)

\* gather returns to broadcast_to_user, which returns to the message
\* handler, which returns to the receive loop (lines 74, 190, 143).
GatherDone(h) ==
    /\ pc[h] = "gather"
    /\ GatherReady(bcast[h])
    /\ calls' = [calls EXCEPT ![h][bcast[h].k].done = TRUE]
    /\ pc' = [pc EXCEPT ![h] = "recv"]
    /\ UNCHANGED <<user, active_connections, user_sessions, chanOk, writes,
                   psend, bcast, issued, ncalls, raised, gone>>
    /\ UNCHANGED notRegistry

Next ==
    \/ \E h \in Clients, u \in Users : Start(h, u)
    \/ \E h \in Clients : AcceptOk(h)
    \/ \E h \in Clients : AcceptFail(h)
    \/ \E h \in Clients : SendOk(h)
    \/ \E h \in Clients : SendFail(h)
    \/ \E h \in Clients, t \in Inbound : RecvMsg(h, t)
    \/ \E h \in Clients : RecvFail(h)
    \/ \E h \in Clients : TasksStart(h)
    \/ \E h \in Clients, c \in Clients : TaskOk(h, c)
    \/ \E h \in Clients, c \in Clients : TaskFail(h, c)
    \/ \E h \in Clients : GatherDone(h)

Spec == Init /\ [][Next]_vars

(***************************************************************************)
(* predict_preferences, one step per graph node and suspension point       *)
(***************************************************************************)

\* An exception of kind exc reaches the try of predict_preferences, called
\* for user u: the except branch returns the fallback (lines 199-207).
Except(u, exc) ==
    IF ExceptCatches(exc)
    THEN /\ result' = FallbackResult(u)
         /\ node' = "returned"
    ELSE /\ node' = "raised"
         /\ UNCHANGED result

\* predict_preferences is called (lines 180-190): AgentState is constructed
\* and the graph entered; emotions that AgentState does not validate raise
\* inside the try and the except branch returns the fallback.
Predict(u, e) ==
    /\ node = "idle"
    /\ arg' = [user_id |-> u, emotions |-> e]
    /\ IF e.kind = "invalid"
       THEN /\ Except(u, "validation")
            /\ UNCHANGED state
       ELSE /\ state' = InitialState(u, e)
            /\ node' = EntryPoint
            /\ UNCHANGED result
    /\ UNCHANGED <<reply, llmCalls, trace>>
    /\ UNCHANGED notPipeline

\* The node analyze_emotion runs (lines 93-102).
Analyze ==
    /\ node = "analyze_emotion"
    /\ state' = AnalyzeEmotions(state)
    /\ trace' = trace \o <<<<node, "start">>, <<node, "end">>>>
    /\ node' = NextNode(node)
    /\ UNCHANGED <<arg, result, reply, llmCalls>>
    /\ UNCHANGED notPipeline

\* The node generate_recommendations runs up to the call of the
\* text-generation chain (lines 108-135).
GenerateCall ==
    /\ node = "generate_recommendations"
    /\ llmCalls' = llmCalls + 1
    /\ trace' = Append(trace, <<"generate_recommendations", "start">>)
    /\ node' = "llm"
    /\ UNCHANGED <<arg, state, result, reply>>
    /\ UNCHANGED notPipeline

\* chain.ainvoke returns the content r, which is parsed (lines 137-148).
LlmReturn(r) ==
    /\ node = "llm"
    /\ reply' = r
    /\ state' = ParseResult(state, r)
    /\ trace' = Append(trace, <<"generate_recommendations", "end">>)
    /\ node' = NextNode("generate_recommendations")
    /\ UNCHANGED <<arg, result, llmCalls>>
    /\ UNCHANGED notPipeline

\* chain.ainvoke raises: the call is outside the node's try, so the exception
\* leaves the graph and the except branch of predict_preferences returns the
\* fallback (lines 130, 199-207).
LlmRaise ==
    /\ node = "llm"
    /\ reply' = Raised
    /\ Except(arg.user_id, "llm")
    /\ UNCHANGED <<arg, state, llmCalls, trace>>
    /\ UNCHANGED notPipeline

\* The node calculate_confidence runs (lines 150-170).
Confidence ==
    /\ node = "calculate_confidence"
    /\ state' = CalculateConfidence(state)
    /\ trace' = trace \o <<<<node, "start">>, <<node, "end">>>>
    /\ node' = NextNode(node)
    /\ UNCHANGED <<arg, result, reply, llmCalls>>
    /\ UNCHANGED notPipeline

\* The graph has ended and predict_preferences returns (lines 192-198).
Return ==
    /\ node = "END"
    /\ result' = ReturnResult(arg.user_id, state)
    /\ node' = "returned"
    /\ UNCHANGED <<arg, state, reply, llmCalls, trace>>
    /\ UNCHANGED notPipeline

PipeNext ==
    \/ node = "idle" /\ \E u \in Users, e \in EmotionArgs : Predict(u, e)
    \/ Analyze
    \/ GenerateCall
    \/ \E r \in Replies : LlmReturn(r)
    \/ LlmRaise
    \/ Confidence
    \/ Return

PipeSpec == Init /\ [][PipeNext]_vars

(***************************************************************************)
(* stream_recommendations, one step per suspension point                   *)
(***************************************************************************)

\* The consumer asks for the first fragment: the generator builds the chain
\* and calls chain.astream (lines 217-254).
StreamCall ==
    /\ snode = "idle"
    /\ scalls' = scalls + 1
    /\ snode' = "streaming"
    /\ UNCHANGED <<chunks, emitted, sfailed>>
    /\ UNCHANGED notStream

\* The stream yields a chunk; its content is appended to stream_results and
\* yielded to the consumer (lines 255-259).
StreamChunk(ch) ==
    /\ snode = "streaming"
    /\ Len(chunks) < MaxChunks
    /\ chunks' = Append(chunks, ch)
    /\ emitted' = Append(emitted, [kind |-> "content", text |-> Content(ch)])
    /\ UNCHANGED <<snode, scalls, sfailed>>
    /\ UNCHANGED notStream

\* The stream raises, at its start or after some chunks: the except branch
\* yields the error message (lines 260-266).
StreamFail ==
    /\ snode = "streaming"
    /\ sfailed' = TRUE
    /\ emitted' = OnStreamError(emitted)
    /\ snode' = "error"
    /\ UNCHANGED <<chunks, scalls>>
    /\ UNCHANGED notStream

\* The stream is exhausted and the generator ends (line 249).
StreamEnd ==
    /\ snode = "streaming"
    /\ snode' = "done"
    /\ UNCHANGED <<chunks, emitted, scalls, sfailed>>
    /\ UNCHANGED notStream

\* The consumer asks for more after the error message: the generator ends
\* (line 266).
StreamErrorEnd ==
    /\ snode = "error"
    /\ snode' = "done"
    /\ UNCHANGED <<chunks, emitted, scalls, sfailed>>
    /\ UNCHANGED notStream

StreamNext ==
    \/ StreamCall
    \/ \E ch \in ChunkValues : StreamChunk(ch)
    \/ StreamFail
    \/ StreamEnd
    \/ StreamErrorEnd

StreamSpec == Init /\ [][StreamNext]_vars

(***************************************************************************)
(* Two interleaved predict_preferences invocations                         *)
(***************************************************************************)

\* The except branch of invocation i (lines 199-207).
PairExcept(i, rec) ==
    IF ExceptCatches("any")
    THEN [rec EXCEPT !.result = FallbackResult(rec.arg.user_id), !.node = "returned"]
    ELSE [rec EXCEPT !.node = "raised"]

\* Invocation i is called (lines 180-190).
PairPredict(i, u, e) ==
    /\ inv[i].node = "idle"
    /\ LET called == [inv[i] EXCEPT !.arg = [user_id |-> u, emotions |-> e]]
       IN  IF e.kind = "invalid"
           THEN /\ inv' = [inv EXCEPT ![i] = PairExcept(i, called)]
                /\ UNCHANGED slots
           ELSE /\ inv' = [inv EXCEPT ![i] = [called EXCEPT !.node = EntryPoint]]
                /\ slots' = [slots EXCEPT ![StateSlot(i)] = InitialState(u, e)]
    /\ UNCHANGED notPair

\* analyze_emotion of invocation i (lines 93-102).
PairAnalyze(i) ==
    /\ inv[i].node = "analyze_emotion"
    /\ slots' = [slots EXCEPT ![StateSlot(i)] = AnalyzeEmotions(@)]
    /\ inv' = [inv EXCEPT ![i].node = NextNode("analyze_emotion")]
    /\ UNCHANGED notPair

\* generate_recommendations of invocation i up to chain.ainvoke (lines 108-135).
PairGenerateCall(i) ==
    /\ inv[i].node = "generate_recommendations"
    /\ inv' = [inv EXCEPT ![i].node = "llm"]
    /\ UNCHANGED slots
    /\ UNCHANGED notPair

\* chain.ainvoke of invocation i returns r (lines 137-148).
PairLlmReturn(i, r) ==
    /\ inv[i].node = "llm"
    /\ slots' = [slots EXCEPT ![StateSlot(i)] = ParseResult(@, r)]
    /\ inv' = [inv EXCEPT ![i].reply = r,
                          ![i].node = NextNode("generate_recommendations")]
    /\ UNCHANGED notPair

\* chain.ainvoke of invocation i raises (lines 130, 199-207).
PairLlmRaise(i) ==
    /\ inv[i].node = "llm"
    /\ inv' = [inv EXCEPT ![i] = PairExcept(i, [inv[i] EXCEPT !.reply = Raised])]
    /\ UNCHANGED slots
    /\ UNCHANGED notPair

\* calculate_confidence of invocation i (lines 150-170).
PairConfidence(i) ==
    /\ inv[i].node = "calculate_confidence"
    /\ slots' = [slots EXCEPT ![StateSlot(i)] = CalculateConfidence(@)]
    /\ inv' = [inv EXCEPT ![i].node = NextNode("calculate_confidence")]
    /\ UNCHANGED notPair

\* Invocation i returns (lines 192-198).
PairReturn(i) ==
    /\ inv[i].node = "END"
    /\ inv' = [inv EXCEPT ![i].result = ReturnResult(inv[i].arg.user_id, slots[StateSlot(i)]),
                          ![i].node = "returned"]
    /\ UNCHANGED slots
    /\ UNCHANGED notPair

PairNext ==
    \E i \in Invocations :
        \/ \E u \in Users, e \in PairArgs : PairPredict(i, u, e)
        \/ PairAnalyze(i)
        \/ PairGenerateCall(i)
        \/ \E r \in PairReplies : PairLlmReturn(i, r)
        \/ PairLlmRaise(i)
        \/ PairConfidence(i)
        \/ PairReturn(i)

PairSpec == Init /\ [][PairNext]_vars

(***************************************************************************)
(* The database-backed service, one step per suspension point              *)
(***************************************************************************)

\* startup_event (main_with_database.py 192-200): init_database, that is
\* init_pool, succeeds or fails; the service starts either way.
Startup(ok) ==
    /\ ~booted
    /\ booted' = TRUE
    /\ IF ok
       THEN /\ npools' = npools + 1
            /\ pool' = npools + 1
       ELSE UNCHANGED <<pool, npools>>
    /\ UNCHANGED <<acq, rel, op, dbcalls, nrows>>
    /\ UNCHANGED notDb

\* detect_emotion is called and waits for the image (lines 53-59).
DetectStart(t) ==
    /\ booted
    /\ op[t].pc \in {"idle", "done"}
    /\ dbcalls < MaxDbCalls
    /\ dbcalls' = dbcalls + 1
    /\ op' = [op EXCEPT ![t] = [NoOp EXCEPT !.kind = "detect", !.pc = "reading"]]
    /\ UNCHANGED <<booted, pool, npools, acq, rel, nrows>>
    /\ UNCHANGED notDb

\* Reading or detecting raises: the outer except returns mock data (95-97).
ReadFail(t) ==
    /\ op[t].pc = "reading"
    /\ op' = [op EXCEPT ![t] = [@ EXCEPT !.pc = "done", !.ret = MockFallback]]
    /\ UNCHANGED <<booted, pool, npools, acq, rel, dbcalls, nrows>>
    /\ UNCHANGED notDb

\* The detection d is computed and save_emotion_detection called, which
\* enters get_connection (lines 59-82, 87-88, 75-79).
Detect(t, d) ==
    /\ op[t].pc = "reading"
    /\ op' = [op EXCEPT ![t] = EnterPool([@ EXCEPT !.det = d])]
    /\ UNCHANGED <<booted, pool, npools, acq, rel, dbcalls, nrows>>
    /\ UNCHANGED notDb

\* One of the other operations is called and enters get_connection.
QueryStart(t, k) ==
    /\ booted
    /\ op[t].pc \in {"idle", "done"}
    /\ dbcalls < MaxDbCalls
    /\ dbcalls' = dbcalls + 1
    /\ op' = [op EXCEPT ![t] = EnterPool([NoOp EXCEPT !.kind = k])]
    /\ UNCHANGED <<booted, pool, npools, acq, rel, nrows>>
    /\ UNCHANGED notDb

\* create_pool returns: init_pool stores the new pool and get_connection
\* goes on to acquire from self.pool (lines 55-62, 79).
CreateOk(t) ==
    /\ op[t].pc = "creating"
    /\ npools < MaxPools
    /\ npools' = npools + 1
    /\ pool' = npools + 1
    /\ op' = [op EXCEPT ![t] = [@ EXCEPT !.pc = "acquiring", !.target = npools + 1]]
    /\ UNCHANGED <<booted, acq, rel, dbcalls, nrows>>
    /\ UNCHANGED notDb

\* create_pool raises: init_pool returns False and get_connection goes on to
\* self.pool.acquire(), which raises when self.pool is still None (63-65, 79).
CreateFail(t) ==
    /\ op[t].pc = "creating"
    /\ op' = [op EXCEPT ![t] =
                IF pool = NoPool
                THEN DbFinish([@ EXCEPT !.noPool = TRUE], FALSE)
                ELSE [@ EXCEPT !.pc = "acquiring", !.target = pool]]
    /\ UNCHANGED <<booted, pool, npools, acq, rel, dbcalls, nrows>>
    /\ UNCHANGED notDb

\* acquire returns a connection of the pool it was called on (line 79).
AcquireOk(t) ==
    /\ op[t].pc = "acquiring"
    /\ acq' = [acq EXCEPT ![op[t].target] = @ + 1]
    /\ op' = [op EXCEPT ![t] = [@ EXCEPT !.pc = "body", !.conn = op[t].target]]
    /\ UNCHANGED <<booted, pool, npools, rel, dbcalls, nrows>>
    /\ UNCHANGED notDb

\* acquire raises, before the try of get_connection (line 79).
AcquireFail(t) ==
    /\ op[t].pc = "acquiring"
    /\ op' = [op EXCEPT ![t] = DbFinish(@, FALSE)]
    /\ UNCHANGED <<booted, pool, npools, acq, rel, dbcalls, nrows>>
    /\ UNCHANGED notDb

\* The body's query returns; the save has inserted a row (lines 102-119).
BodyOk(t) ==
    /\ op[t].pc = "body"
    /\ nrows' = IF op[t].kind = "detect" THEN nrows + 1 ELSE nrows
    /\ op' = [op EXCEPT ![t] = Finally([@ EXCEPT !.rowid = nrows'], TRUE)]
    /\ UNCHANGED <<booted, pool, npools, acq, rel, dbcalls>>
    /\ UNCHANGED notDb

\* The body raises.
BodyFail(t) ==
    /\ op[t].pc = "body"
    /\ op' = [op EXCEPT ![t] = Finally(@, FALSE)]
    /\ UNCHANGED <<booted, pool, npools, acq, rel, dbcalls, nrows>>
    /\ UNCHANGED notDb

\* release returns: the connection is back in its pool and the operation
\* ends as its body did (line 83).
ReleaseDone(t) ==
    /\ op[t].pc = "releasing"
    /\ rel' = [rel EXCEPT ![op[t].conn] = @ + 1]
    /\ op' = [op EXCEPT ![t] = DbFinish([@ EXCEPT !.conn = NoPool], op[t].bodyOk)]
    /\ UNCHANGED <<booted, pool, npools, acq, dbcalls, nrows>>
    /\ UNCHANGED notDb

DbNext ==
    \/ \E ok \in BOOLEAN : Startup(ok)
    \/ \E t \in Tasks :
        \/ DetectStart(t)
        \/ ReadFail(t)
        \/ \E d \in Detections : Detect(t, d)
        \/ \E k \in Swallowing : QueryStart(t, k)
        \/ CreateOk(t)
        \/ CreateFail(t)
        \/ AcquireOk(t)
        \/ AcquireFail(t)
        \/ BodyOk(t)
        \/ BodyFail(t)
        \/ ReleaseDone(t)

DbSpec == Init /\ [][DbNext]_vars

(***************************************************************************)
(* Properties of the connection registry                                   *)
(***************************************************************************)

\* The clients whose connect has returned and whose disconnect has not run.
Registered == {h \in Clients : pc[h] \in {"send", "gather", "recv"}}

\* The clients with a channel write that has failed.
FailedClients ==
    {c \in Clients : \E i \in DOMAIN writes[c] : writes[c][i].st = "fail"}

NoSendFailure == FailedClients = {}

\* C1: every client id in some user's session set has an entry in
\* active_connections.
SessionsHaveConnections ==
    \A u \in DOMAIN user_sessions : user_sessions[u] \subseteq active_connections

\* C2: once a send to a client has failed, the call has not raised and
\* get_stats counts the client nowhere: not in total_connections, not in its
\* user's entry of connections_per_user, and its user is counted in
\* total_users only for its other clients.
FailedSendLeavesStats ==
    LET s == get_stats
    IN  /\ raised = {}
        /\ s.total_connections = Cardinality(active_connections \ FailedClients)
        /\ \A u \in DOMAIN s.connections_per_user :
              s.connections_per_user[u] = Cardinality(user_sessions[u] \ FailedClients)
        /\ s.total_users =
              Cardinality({u \in DOMAIN user_sessions :
                              user_sessions[u] \ FailedClients # {}})

\* C3: no send_personal_message call and no broadcast_to_user call raises to
\* its caller, whatever the state of the target: registered, not registered,
\* failing on the write, or removed by another handler during the write.
SendNeverRaises ==
    \A r \in raised : r.op # "send" /\ r.op # "broadcast"

\* C3, witness: a broadcast has returned although the write to one of its
\* clients failed after that client's handler had unregistered it.
RemovedDuringWrite ==
    \E g \in gone :
        /\ pc[g[3]] = "done"
        /\ g[1] # g[3]
        /\ calls[g[1]][g[2]].done
        /\ Failed(g[3], g[1], g[2])

\* C4: a broadcast that has returned has run send_personal_message for
\* exactly the clients of the user's session set at the call, whatever
\* connected or disconnected meanwhile; it calls send_text at most once per
\* client and for no client outside that set, and exactly once for every
\* client of the set that is still in active_connections.
BroadcastOncePerSnapshotClient ==
    \A b \in Broadcasts :
        LET r == calls[b[1]][b[2]]
        IN  /\ r.sent \subseteq r.snap
            /\ r.done => r.sent = r.snap
            /\ \A c \in Clients :
                    /\ Attempts(c, b[1], b[2]) <= 1
                    /\ c \notin r.snap => Attempts(c, b[1], b[2]) = 0
                    /\ (r.done /\ c \in r.snap /\ c \in active_connections)
                            => Attempts(c, b[1], b[2]) = 1

\* C4, witness: without any failed write, a broadcast has returned whose send
\* tasks ran for both clients of the snapshot: it wrote once to one and not
\* at all to the other, which was registered at the call and unregistered
\* before the send tasks ran.
BroadcastDuringDisconnect ==
    \E b \in Broadcasts :
        LET r == calls[b[1]][b[2]]
        IN  /\ r.done
            /\ NoSendFailure
            /\ \E c, d \in r.snap :
                    /\ c # d
                    /\ Attempts(c, b[1], b[2]) = 1
                    /\ d \in r.live /\ d \in r.sent
                    /\ Attempts(d, b[1], b[2]) = 0

\* C5: when a broadcast has returned and the write to one client of the
\* snapshot failed, every other client of the snapshot whose channel works
\* has received the message.
BroadcastFailureIsolated ==
    \A b \in Broadcasts :
        LET r == calls[b[1]][b[2]]
        IN  r.done =>
                \A d \in r.snap :
                    Failed(d, b[1], b[2]) =>
                        \A c \in r.snap \ {d} : chanOk[c] => Got(c, b[1], b[2])

\* C5, witness: a broadcast has returned, one write failed and another
\* client received the message.
BroadcastPartlyDelivered ==
    \E b \in Broadcasts :
        LET r == calls[b[1]][b[2]]
        IN  /\ r.done
            /\ \E c, d \in r.snap :
                    c # d /\ Failed(d, b[1], b[2]) /\ Got(c, b[1], b[2])

\* A handler is inside a registry operation that has begun and not returned:
\* connect at the handshake, send_personal_message at the channel write,
\* broadcast_to_user at gather.
MidOp(h) == pc[h] \in {"accept", "send", "gather"}

\* C6, as claimed: registry operations do not yield, so while a handler is
\* inside connect, send or broadcast no step of another coroutine changes a
\* registry map.
RegistryOpsDoNotYield ==
    [][\A h \in Clients :
          (MidOp(h) /\ pc'[h] = pc[h] /\ bcast'[h] = bcast[h] /\ psend'[h] = psend[h])
              => (active_connections' = active_connections
                  /\ user_sessions' = user_sessions)]_vars

\* C6, amended: connect, send and broadcast yield (at the handshake, at the
\* channel write, at gather), but every change of the two maps is one step:
\* a client enters active_connections and its user's session set in the same
\* step, which ends its handshake; it leaves the session sets only in the
\* step of its own handler's disconnect, which also removes it from
\* active_connections and does not yield.
RegistryMutationsAtomic ==
    [][/\ \A c \in active_connections' \ active_connections :
              /\ pc[c] = "accept"
              /\ user[c] \in DOMAIN user_sessions'
              /\ c \in user_sessions'[user[c]]
       /\ \A c \in SessionClients' \ SessionClients : c \in active_connections'
       /\ \A c \in SessionClients \ SessionClients' :
              pc[c] = "recv" /\ pc'[c] = "done"
       /\ \A c \in Clients :
              (pc[c] # "done" /\ pc'[c] = "done")
                  => (c \notin active_connections' /\ c \notin SessionClients')]_vars

\* C6, witness: the handler of a client has unregistered it while the write
\* of another handler's broadcast to that client is suspended.
DisconnectDuringWrite ==
    \E h \in Clients : \E c \in bcast[h].inflight : c # h /\ pc[c] = "done"

Pos(seq, x) == CHOOSE i \in DOMAIN seq : seq[i] = x

\* C7, as claimed: every client receives its messages in the order in which
\* the send and broadcast calls targeting it were issued.
PerClientFifo ==
    \A c \in Clients :
        LET r == Received(c)
        IN  \A i, j \in DOMAIN r :
                i < j => Pos(issued[c], r[i]) < Pos(issued[c], r[j])

\* C7, amended: every client receives the messages of one handler's calls in
\* the order in which that handler issued them.
PerIssuerFifo ==
    \A c \in Clients :
        LET r == Received(c)
        IN  \A i, j \in DOMAIN r :
                (i < j /\ r[i][1] = r[j][1]) => r[i][2] < r[j][2]

\* C7, witness: a client has received a message of its own handler, then a
\* broadcast of another handler of its user, then a message of its own
\* handler again.
InterleavedDelivery ==
    \E c \in Clients :
        LET r == Received(c)
        IN  \E i, j, l \in DOMAIN r :
                i < j /\ j < l /\ r[i][1] = c /\ r[j][1] # c /\ r[l][1] = c

\* C8: as long as no send has failed, get_stats reports the registered
\* clients: their number, the number of their distinct users, and per user
\* the number of its registered clients.
StatsCountRegistered ==
    NoSendFailure =>
        LET s == get_stats
            of(u) == {h \in Registered : user[h] = u}
        IN  /\ s.total_connections = Cardinality(Registered)
            /\ s.total_users = Cardinality({user[h] : h \in Registered})
            /\ DOMAIN s.connections_per_user = {user[h] : h \in Registered}
            /\ \A u \in DOMAIN s.connections_per_user :
                  s.connections_per_user[u] = Cardinality(of(u))

\* C8, witness: two clients registered under "u1" and no failed send:
\* 2 connections, 1 user, 2 sessions for "u1".
TwoSessionsOneUser ==
    /\ NoSendFailure
    /\ Cardinality({h \in Registered : user[h] = "u1"}) = 2
    /\ get_stats.total_connections = 2
    /\ get_stats.total_users = 1
    /\ get_stats.connections_per_user["u1"] = 2

\* C9: once a client's handler has unregistered it, get_stats counts it
\* nowhere, and a send to it is a no-op: it raises nothing, changes neither
\* map and calls send_text on no websocket for it.
UnregisteredSendIsNoop ==
    [][/\ \A c \in Clients :
              pc'[c] = "done" =>
                  /\ c \notin active_connections'
                  /\ c \notin SessionClients'
                  /\ Len(writes'[c]) = Len(writes[c])
       /\ \A h \in Clients :
              (bcast[h].todo # {} /\ bcast'[h].noop # {})
                  => (active_connections' = active_connections
                      /\ user_sessions' = user_sessions
                      /\ raised' = raised)
       /\ raised' = {}]_vars

\* C9, witness: a send task of a broadcast ran for a client that had been
\* unregistered, and wrote nothing.
SendAfterUnregister ==
    \E h \in Clients : \E c \in bcast[h].noop :
        pc[c] = "done" /\ Attempts(c, h, bcast[h].k) = 0

\* C10: disconnect is idempotent and raises nothing: for every client id and
\* user id, a second disconnect with the same arguments changes nothing, and
\* a disconnect for a client id that is in neither map changes nothing.
DisconnectIdempotent ==
    \A c \in Clients, u \in Users :
        LET once == DisconnectMaps(active_connections, user_sessions, c, u)
            twice == DisconnectMaps(once.ac, once.us, c, u)
        IN  /\ ~once.raised /\ ~twice.raised
            /\ twice.ac = once.ac /\ twice.us = once.us
            /\ (c \notin active_connections /\ c \notin SessionClients)
                    => (once.ac = active_connections /\ once.us = user_sessions)

\* C10, witness: the endpoint has called disconnect for a client that was
\* never registered (its handshake failed) while another client of the same
\* user is registered.
DisconnectOfUnknown ==
    \E h, g \in Clients :
        /\ pc[h] = "done" /\ calls[h] = << >>
        /\ g \in active_connections /\ user[g] = user[h]

\* C11: no user id in user_sessions maps to an empty set, so total_users
\* counts only users with at least one session.
NoEmptySessionSet ==
    /\ \A u \in DOMAIN user_sessions : user_sessions[u] # {}
    /\ \A u \in DOMAIN get_stats.connections_per_user :
          get_stats.connections_per_user[u] >= 1

\* C11, witness: the last client of a user has been unregistered and the
\* user's entry is gone, while another user still has a session.
LastClientRemoved ==
    \E h \in Clients :
        /\ pc[h] = "done" /\ calls[h] # << >>
        /\ user[h] \notin DOMAIN user_sessions
        /\ DOMAIN user_sessions # {}

\* The channel writes that have failed, as <<client, position>>.
FailedWrites ==
    UNION {{<<c, i>> : i \in {j \in DOMAIN writes[c] : writes[c][j].st = "fail"}} :
              c \in Clients}

\* The channel writes that have succeeded, as <<client, position>>.
OkWrites ==
    UNION {{<<c, i>> : i \in {j \in DOMAIN writes[c] : writes[c][j].st = "ok"}} :
              c \in Clients}

\* C12: a step changes active_connections or user_sessions only if it is the
\* end of a handshake (register), a disconnect of the endpoint (unregister) or
\* the failure of a channel write; the step in which a write succeeds, the
\* step in which a send finds its client unknown, and every step of a
\* broadcast whose writes succeed leave both maps as they are.
MapsChangeOnlyByRegistryOps ==
    [][/\ (active_connections' # active_connections \/ user_sessions' # user_sessions)
            => \/ \E h \in Clients : pc[h] = "accept" /\ pc'[h] # "accept"
               \/ \E h \in Clients : pc[h] # "done" /\ pc'[h] = "done"
               \/ FailedWrites' # FailedWrites
       /\ (OkWrites' # OkWrites)
            => (active_connections' = active_connections
                /\ user_sessions' = user_sessions)
       /\ (\E h \in Clients : bcast[h].todo # {} /\ bcast'[h].todo = {})
            => (active_connections' = active_connections
                /\ user_sessions' = user_sessions)
       /\ (\E h \in Clients :
              /\ pc[h] = "recv" /\ pc'[h] = "recv"
              /\ Len(calls'[h]) > Len(calls[h]))
            => (active_connections' = active_connections
                /\ user_sessions' = user_sessions)]_vars

\* C12, witness: a broadcast to two clients has returned, both writes went
\* through, no write has failed, and both clients are still in both maps.
BroadcastLeftMaps ==
    \E b \in Broadcasts :
        LET r == calls[b[1]][b[2]]
        IN  /\ r.done /\ NoSendFailure
            /\ Cardinality(r.snap) = 2
            /\ \A c \in r.snap : Got(c, b[1], b[2]) /\ c \in active_connections
            /\ r.snap \subseteq SessionClients

\* C24: once the endpoint of a client has ended (peer disconnect, error on
\* receive, undecodable message, failed handshake) the client is in neither
\* map, and the step that ends it leaves every other client where it was in
\* both maps.
EndpointEndUnregisters ==
    [][\A c \in Clients :
          pc'[c] = "done" =>
              /\ c \notin active_connections'
              /\ c \notin SessionClients'
              /\ pc[c] # "done" =>
                    \A d \in Clients \ {c} :
                        /\ (d \in active_connections') = (d \in active_connections)
                        /\ \A u \in Users :
                              (u \in DOMAIN user_sessions' /\ d \in user_sessions'[u])
                                  = (u \in DOMAIN user_sessions /\ d \in user_sessions[u])]_vars

\* C24, witness: the endpoint of a registered client has ended while another
\* client of the same user stays in both maps.
EndedBesideSibling ==
    \E h, g \in Clients :
        /\ h # g /\ user[h] = user[g]
        /\ pc[h] = "done" /\ calls[h] # << >>
        /\ pc[g] = "recv" /\ g \in active_connections
        /\ user[g] \in DOMAIN user_sessions /\ user_sessions[user[g]] = {g}

\* C26: for every detect_emotion request of handler h (a send followed by a
\* broadcast): the emotion_detected reply is written to h alone; once the
\* broadcast has returned, h, if its channel works, has received the reply
\* and then the emotion_update, and every other client of the user's session
\* set whose channel works has received the emotion_update, written once.
DetectReplyThenUpdate ==
    /\ \A h \in Clients :
          /\ psend[h].then = "bcast" => psend[h].type = "emotion_detected"
          /\ bcast[h].k # 0 => bcast[h].type = "emotion_update"
    /\ \A b \in Broadcasts :
          LET h == b[1]
              k == b[2]
              r == calls[h][k]
          IN  /\ k > 1 /\ calls[h][k - 1].kind = "send"
              /\ \A d \in Clients \ {h} : Attempts(d, h, k - 1) = 0
              /\ r.done =>
                    /\ chanOk[h] =>
                          /\ Got(h, h, k - 1) /\ Got(h, h, k)
                          /\ Pos(Received(h), <<h, k - 1>>) < Pos(Received(h), <<h, k>>)
                    /\ \A d \in r.snap \ {h} :
                          chanOk[d] => (Got(d, h, k) /\ Attempts(d, h, k) = 1)

\* C26, witness: a detect_emotion request has been served with two clients
\* in the user's session set: the sender has received two messages for it,
\* the other client one.
DetectServedTwoClients ==
    \E b \in Broadcasts :
        LET h == b[1]
            k == b[2]
            r == calls[h][k]
        IN  /\ r.done /\ Cardinality(r.snap) = 2
            /\ Got(h, h, k - 1) /\ Got(h, h, k)
            /\ \E d \in r.snap \ {h} : Got(d, h, k) /\ Attempts(d, h, k - 1) = 0

\* The sum of connections_per_user over the users get_stats reports.
SessionCount ==
    Cardinality({p \in (DOMAIN user_sessions) \X Clients : p[2] \in user_sessions[p[1]]})

\* C27: every client in active_connections is in the session set of exactly
\* one user, so total_connections is at most the sum of connections_per_user.
ConnectionsHaveOneUser ==
    /\ \A c \in active_connections :
          Cardinality({u \in DOMAIN user_sessions : c \in user_sessions[u]}) = 1
    /\ get_stats.total_connections
          <= SessionCount

\* C27, witness: a client of one user is in active_connections, a client of
\* another user is left in its session set only, and the sessions counted
\* exceed the connections counted.
TwoUsersMoreSessions ==
    /\ \E c \in active_connections, d \in SessionClients \ active_connections :
          user[c] # user[d]
    /\ get_stats.total_connections
          < SessionCount

\* C28: no message crosses users: every write on a client's channel is of a
\* call issued by a handler of the client's own user.
NoCrossUserWrite ==
    \A c \in Clients :
        \A i \in DOMAIN writes[c] : user[writes[c][i].by] = user[c]

\* C28, witness: a handler has broadcast to its user while a client of
\* another user was registered and received messages of its own handler only.
BroadcastBesideOtherUser ==
    \E b \in Broadcasts : \E c \in active_connections :
        /\ calls[b[1]][b[2]].done
        /\ user[c] # user[b[1]]
        /\ b[1] \in active_connections
        /\ Len(Received(c)) >= 2
        /\ Got(b[1], b[1], b[2])

\* C29: the first write on a client's channel is the connection_established
\* message of its own endpoint, the first call of its handler; no broadcast
\* of another handler is written before it.
WelcomeIsFirstWrite ==
    \A c \in Clients :
        /\ writes[c] # << >> => (writes[c][1].by = c /\ writes[c][1].k = 1)
        /\ (pc[c] = "send" /\ psend[c].k = 1) => psend[c].type = "connection_established"

\* C29, witness: the broadcast of another handler has been written to a
\* client's channel while the client's welcome message was still in flight,
\* behind it.
BroadcastBehindWelcome ==
    \E c \in Clients :
        /\ pc[c] = "send" /\ psend[c].type = "connection_established"
        /\ Len(writes[c]) >= 2
        /\ writes[c][1].st = "pending"
        /\ writes[c][2].by # c

(***************************************************************************)
(* Properties of predict_preferences                                       *)
(***************************************************************************)

Returned == node = "returned"

\* The emotions mapping the caller supplied has no entries, or is absent.
NoEmotionsSupplied ==
    arg.emotions.kind = "none" \/ (arg.emotions.kind = "map" /\ arg.emotions.items = << >>)

\* The caller supplied a mapping with at least one entry.
EmotionsSupplied == arg.emotions.kind = "map" /\ arg.emotions.items # << >>

\* The text-generation call returned some content.
LlmAnswered == reply.kind \in {"not_json", "not_object", "object"}

\* The content is a JSON object with both keys.
WellFormedReply ==
    reply.kind = "object" /\ ~reply.cats.none /\ ~reply.reasoning.none

\* The score the stage-3 rule gives for a supplied mapping m: 0.5 for no
\* entries, otherwise factor times weight of a maximum-weight entry (one
\* value per maximum-weight label when several labels tie).
RuleScores(m) ==
    IF m = << >>
    THEN {50}
    ELSE {Factor(m[i][1]) * m[i][2] :
            i \in {k \in DOMAIN m : \A j \in DOMAIN m : m[j][2] <= m[k][2]}}

\* C13: a call whose emotions mapping is empty or absent returns
\* confidence_score 0.5, whether or not the text-generation call succeeded.
EmptyEmotionsScoreHalf ==
    (Returned /\ NoEmotionsSupplied) => result.confidence_score = 50

\* C14: a call with a non-empty mapping and a text-generation call that
\* answered returns confidence_score = factor * weight of the maximum-weight
\* label, also for a maximum weight of 0.
DominantWeightScore ==
    (Returned /\ EmotionsSupplied /\ LlmAnswered)
        => result.confidence_score \in RuleScores(arg.emotions.items)

\* C15: when the text-generation call raised, or its content is not JSON,
\* not a JSON object, or an object lacking one of the two keys, the result
\* has exactly the fallback categories and a non-empty reasoning.
FailureGivesFallback ==
    (Returned /\ (reply.kind \in {"raise", "not_json", "not_object"}
                    \/ (reply.kind = "object" /\ ~WellFormedReply)))
        => (result.recommended_categories = FallbackCategories
            /\ result.reasoning # "")

\* C16: when the text-generation call raised, the result carries the score
\* of the supplied emotions (0.5 only for none) and the categories and
\* reasoning of the parse-failure fallback.
FallbackKeepsScore ==
    (Returned /\ reply = Raised)
        => (/\ result.confidence_score \in RuleScores(arg.emotions.items)
            /\ result.recommended_categories = FallbackCategories
            /\ result.reasoning = ParseFallbackReasoning)

\* C17: predict_preferences never raises to its caller, and what it returns
\* has exactly the fields user_id, recommended_categories, reasoning and
\* confidence_score, with the user_id that was passed in.
PredictAlwaysReturns ==
    /\ node # "raised"
    /\ Returned =>
          /\ DOMAIN result =
                {"user_id", "recommended_categories", "reasoning", "confidence_score"}
          /\ result.user_id = arg.user_id

\* C17, witness: calls have returned for "u2" after the text-generation call
\* raised.
ReturnedAfterRaise ==
    Returned /\ reply = Raised /\ EmotionsSupplied /\ result.user_id = "u2"

\* C18: every result has between 3 and 5 recommended categories.
CategoriesThreeToFive ==
    Returned => Len(result.recommended_categories) \in 3..5

\* C19: when the content is a JSON object with categories C and reasoning R,
\* the result is exactly the user_id passed in, C, R and the score of the
\* supplied emotions.
ObjectReplyPassedThrough ==
    (Returned /\ WellFormedReply)
        => \E sc \in RuleScores(arg.emotions.items) :
              result = [user_id |-> arg.user_id,
                        recommended_categories |-> reply.cats.v,
                        reasoning |-> reply.reasoning.v,
                        confidence_score |-> sc]

\* The three stages in their order, each started and ended once.
FullTrace ==
    <<<<"analyze_emotion", "start">>, <<"analyze_emotion", "end">>,
      <<"generate_recommendations", "start">>, <<"generate_recommendations", "end">>,
      <<"calculate_confidence", "start">>, <<"calculate_confidence", "end">>>>

\* C20: an invocation runs Normalize, Recommend, Score in this order, each at
\* most once and never an earlier one again; Score starts only after
\* Recommend has ended; the text-generation chain is called at most once.
StagesInOrder ==
    /\ Len(trace) <= Len(FullTrace)
    /\ trace = SubSeq(FullTrace, 1, Len(trace))
    /\ llmCalls <= 1
    /\ llmCalls = Cardinality({i \in DOMAIN trace :
                                  trace[i] = <<"generate_recommendations", "start">>})

\* C20, witness: an invocation has returned after all three stages ran, with
\* one call of the text-generation chain.
AllStagesRan ==
    Returned /\ trace = FullTrace /\ llmCalls = 1 /\ LlmAnswered

\* The mapping Normalize is to hand on for the emotions the caller supplied.
Normalized(e) ==
    IF e.kind = "map" /\ e.items # << >> THEN e.items ELSE <<<<"neutral", 10>>>>

\* C25: once analyze_emotion has run, state.emotions is {"neutral": 1.0} for
\* an absent or empty mapping and the supplied mapping, entry for entry,
\* otherwise; the text-generation chain has not been called by then; the
\* mapping is the same when generate_recommendations reads it for the prompt
\* and when calculate_confidence scores it, and the score is that of its
\* dominant entry.
NormalizeFeedsLaterStages ==
    /\ node = "generate_recommendations" => llmCalls = 0
    /\ node \in {"generate_recommendations", "llm", "calculate_confidence", "END"}
          => state.emotions = Some(Normalized(arg.emotions))
    /\ node = "END" =>
          LET m == Normalized(arg.emotions)
          IN  state.confidence_score = Some(Factor(m[Dominant(m)][1]) * m[Dominant(m)][2])

\* C25, witness: a call with an empty mapping has reached the end of the
\* graph with the neutral default scored: 0.7 * 1.0.
NormalizedEmptyMap ==
    /\ node = "END"
    /\ arg.emotions.kind = "map" /\ arg.emotions.items = << >>
    /\ state.emotions.v = <<<<"neutral", 10>>>>
    /\ state.confidence_score.v = 70

(***************************************************************************)
(* Properties of stream_recommendations                                    *)
(***************************************************************************)

\* C21: the consumer has received the contents of the chunks the stream
\* yielded, in order, followed by exactly one error message if the stream
\* raised and by nothing otherwise; chain.astream is called at most once; and
\* once the error message is out, the generator only ends.
StreamFailureOneError ==
    /\ scalls <= 1
    /\ emitted = [i \in 1..Len(chunks) |-> [kind |-> "content", text |-> Content(chunks[i])]]
                    \o (IF sfailed THEN <<ErrorFragment>> ELSE << >>)
    /\ snode = "error" => sfailed
    /\ (snode = "done" /\ ~sfailed) => \A i \in DOMAIN emitted : emitted[i].kind # "error"

\* C21, witness: the stream raised after two chunks, one of them without a
\* content attribute; the consumer got both, then the error message, and the
\* generator has ended.
FailedAfterTwoChunks ==
    /\ snode = "done" /\ sfailed
    /\ Len(chunks) = 2 /\ ~chunks[2].hasContent
    /\ Len(emitted) = 3 /\ emitted[3] = ErrorFragment

(***************************************************************************)
(* Properties of concurrent predict_preferences invocations                *)
(***************************************************************************)

\* What predict_preferences returns when it runs alone on arguments a and the
\* chain answers r: the three nodes in sequence, or the fallback.
Alone(a, r) ==
    IF a.emotions.kind = "invalid" \/ r = Raised
    THEN FallbackResult(a.user_id)
    ELSE ReturnResult(a.user_id,
            CalculateConfidence(ParseResult(AnalyzeEmotions(
                InitialState(a.user_id, a.emotions)), r)))

\* An invocation that is inside the graph.
InGraph(i) == inv[i].node \notin {"idle", "returned", "raised"}

\* C22: two invocations interleaved at their suspension points do not
\* influence one another: each returns what it returns alone on its arguments
\* and its chain reply, and while one is inside the graph the AgentState it
\* works on carries its own user and none of the other's data.
InvocationsIndependent ==
    \A i \in Invocations :
        /\ inv[i].node = "returned" => inv[i].result = Alone(inv[i].arg, inv[i].reply)
        /\ inv[i].node # "raised"
        /\ InGraph(i) =>
              /\ slots[i].user_id = inv[i].arg.user_id
              /\ inv[i].node \in {"analyze_emotion"} =>
                    slots[i] = InitialState(inv[i].arg.user_id, inv[i].arg.emotions)

\* C22, witness: both invocations have returned, with different arguments
\* and different chain replies, and different results.
BothReturnedDifferently ==
    /\ \A i \in Invocations : inv[i].node = "returned"
    /\ inv[1].arg.emotions = [kind |-> "map", items |-> <<<<"happy", 8>>>>]
    /\ inv[2].arg.emotions = [kind |-> "none", items |-> << >>]
    /\ inv[1].reply.kind = "object" /\ inv[2].reply.kind = "not_json"
    /\ inv[1].result.confidence_score = 72
    /\ inv[2].result.confidence_score = 70

(***************************************************************************)
(* Properties of the database-backed service                               *)
(***************************************************************************)

\* A detect_emotion call that has returned after attempting the save.
SaveAttempted(t) ==
    op[t].kind = "detect" /\ op[t].pc = "done" /\ op[t].det # NoDetection

\* C23: a detect_emotion call whose save raised returns the detection
\* computed before the save (same emotion, confidence, allEmotions) with
\* saved_to_database false; one whose save returned carries
\* saved_to_database true and the id of the inserted row.
SaveFailureKeepsDetection ==
    \A t \in Tasks :
        SaveAttempted(t) =>
            /\ op[t].ret.emotion = op[t].det.emotion
            /\ op[t].ret.confidence = op[t].det.confidence
            /\ op[t].ret.allEmotions = op[t].det.allEmotions
            /\ op[t].raised => op[t].ret.saved_to_database = "false"
            /\ ~op[t].raised =>
                  /\ op[t].ret.saved_to_database = "true"
                  /\ op[t].ret.detection_id = op[t].rowid /\ op[t].rowid >= 1

\* C23, witness: the body of a save raised on an acquired connection, and
\* detect_emotion has returned the detection with saved_to_database false.
DetectionReturnedUnsaved ==
    \E t \in Tasks :
        /\ SaveAttempted(t) /\ op[t].raised /\ ~op[t].bodyOk
        /\ acq[1] >= 1
        /\ op[t].ret.emotion = "happy" /\ op[t].ret.confidence = 90
        /\ op[t].ret.saved_to_database = "false" /\ op[t].ret.database_error

\* No operation is in progress.
Quiet == \A t \in Tasks : op[t].pc \in {"idle", "done"}

\* C30: get_connection releases every connection it acquires exactly once:
\* when no operation is in progress, every pool has had as many connections
\* released to it as acquired from it.
AcquiredEqualsReleased ==
    Quiet => \A p \in Pools : acq[p] = rel[p]

\* C30, the parts that hold: no pool is handed back more than it gave out,
\* and an operation that found no pool and could not create one has failed
\* with nothing acquired and nothing released.
NoPoolNothingAcquired ==
    /\ \A p \in Pools : rel[p] <= acq[p]
    /\ \A t \in Tasks :
          op[t].noPool => /\ op[t].pc = "done" /\ op[t].raised
                          /\ op[t].conn = NoPool /\ op[t].target = NoPool
    /\ pool = NoPool => \A p \in Pools : acq[p] = 0 /\ rel[p] = 0

\* C30, the state that breaks it: every operation has ended and a connection
\* acquired from the first pool was never released, the pool having been
\* replaced while the connection was in use.
ConnectionLeftOut ==
    /\ Quiet
    /\ acq[1] = 1 /\ rel[1] = 0
    /\ pool = 2

====
